---- MODULE Spec2Model ----
(***************************************************************************)
(* A model of src/app.py: the TinyRAG keyword retriever, the prompt        *)
(* assembly of agentic_self_healing, the Gemini client gemini_generate and *)
(* the Streamlit button handler that chains them.                          *)
(*                                                                         *)
(* A Python str is a sequence of characters, each character a one-element  *)
(* TLA+ string; a character outside ASCII is named by its code point       *)
(* ("U+26A0").  Three specifications share the variables:                  *)
(*   Spec          the page: edit the incident, click, await the HTTP call *)
(*   SpecRetrieve  TinyRAG.retrieve as a function of (query, k)            *)
(*   SpecGenerate  gemini_generate as a function of the HTTP outcome       *)
(***************************************************************************)
EXTENDS Integers, Sequences, FiniteSets, TLC

VARIABLES
    api_key,              \* get_api_key(): the configured key, "" when unset
    langgraph_available,  \* LANGGRAPH_AVAILABLE
    incident_input,       \* the text area's content
    pc,                   \* where the run is
    display,              \* what the page shows under the button
    info,                 \* whether st.info's note is shown
    report,               \* the text handed to st.markdown
    triggers,             \* button clicks so far
    posts,                \* requests.post calls so far
    request,              \* the POST in flight or last sent
    query,                \* retrieve's query
    k,                    \* retrieve's k
    query_words,          \* retrieve's local query_words
    scored,               \* retrieve's local scored, before the sort
    result,               \* retrieve's return value
    context,              \* agentic_self_healing's local context
    prompt,               \* agentic_self_healing's local prompt
    http,                 \* the outcome of requests.post and resp.json()
    gres                  \* the outcome of gemini_generate

vars == <<api_key, langgraph_available, incident_input, pc, display, info, report,
          triggers, posts, request, query, k, query_words, scored, result,
          context, prompt, http, gres>>

---------------------------------------------------------------------------
(* Bounds of the model *)

\* longest query given to retrieve in SpecRetrieve
MaxLen == 4
\* largest k given to retrieve in SpecRetrieve: k ranges over 0..MaxK (the store holds 5 facts)
MaxK == 6
\* longest incident typed into the text area in Spec
MaxIncidentLen == 2
\* button clicks in one behaviour of Spec
MaxTriggers == 2
\* longest "parts" list of a response in SpecGenerate
MaxParts == 2

---------------------------------------------------------------------------
(* Python str operations *)

\* the characters str.split() and str.strip() treat as whitespace (ASCII ones)
Whitespace == {" ", "\t", "\n", "\r", "\f"}

UpperCase == <<"A","B","C","D","E","F","G","H","I","J","K","L","M",
               "N","O","P","Q","R","S","T","U","V","W","X","Y","Z">>

LowerCase == <<"a","b","c","d","e","f","g","h","i","j","k","l","m",
               "n","o","p","q","r","s","t","u","v","w","x","y","z">>

UpperSet == {UpperCase[i] : i \in 1..26}

\* each upper-case letter's lower-case letter
LowerOf == [c \in UpperSet |-> LowerCase[CHOOSE i \in 1..26 : UpperCase[i] = c]]

LowerChar(c) == IF c \in UpperSet THEN LowerOf[c] ELSE c

\* str.lower()
Lower(s) == [i \in 1..Len(s) |-> LowerChar(s[i])]

\* whether sub occurs in s starting at position i
OccursAt(sub, s, i) ==
    /\ i >= 1
    /\ i + Len(sub) - 1 <= Len(s)
    /\ \A t \in 1..Len(sub) : s[i + t - 1] = sub[t]

\* Python's  sub in s  for two strs
IsSubstring(sub, s) == \E i \in 1..(Len(s) + 1) : OccursAt(sub, s, i)

RECURSIVE SplitFrom(_, _, _, _)
SplitFrom(s, i, cur, acc) ==
    IF i > Len(s)
    THEN IF cur = <<>> THEN acc ELSE Append(acc, cur)
    ELSE IF s[i] \in Whitespace
         THEN SplitFrom(s, i + 1, <<>>, IF cur = <<>> THEN acc ELSE Append(acc, cur))
         ELSE SplitFrom(s, i + 1, Append(cur, s[i]), acc)

\* str.split() with no separator: the maximal runs of non-whitespace, in order
Split(s) == SplitFrom(s, 1, <<>>, <<>>)

RECURSIVE LStrip(_)
LStrip(s) ==
    IF s # <<>> /\ Head(s) \in Whitespace THEN LStrip(Tail(s)) ELSE s

RECURSIVE RStrip(_)
RStrip(s) ==
    IF s # <<>> /\ s[Len(s)] \in Whitespace THEN RStrip(SubSeq(s, 1, Len(s) - 1)) ELSE s

\* str.strip()
Strip(s) == RStrip(LStrip(s))

RECURSIVE JoinFrom(_, _, _)
JoinFrom(sep, strs, i) ==
    IF i > Len(strs) THEN <<>>
    ELSE IF i = Len(strs) THEN strs[i]
    ELSE strs[i] \o sep \o JoinFrom(sep, strs, i + 1)

\* a faulty join: the strs run together, no separator between them
JoinNoSeparator(sep, strs) == JoinFrom(<<>>, strs, 1)

\* sep.join(strs)
Join(sep, strs) == JoinFrom(sep, strs, 1)

\* every str over the characters of alphabet, of length 0..n
Strings(alphabet, n) == UNION {[1..m -> alphabet] : m \in 0..n}

---------------------------------------------------------------------------
(* TinyRAG: the knowledge store *)

\* src/app.py:18  "High CPU usage may indicate process bottlenecks."
Doc1 ==
    <<"H","i","g","h"," ","C","P","U"," ","u","s","a","g","e"," ","m","a","y"," ","i","n","d",
      "i","c","a","t","e"," ","p","r","o","c","e","s","s"," ","b","o","t","t","l","e","n","e",
      "c","k","s",".">>

\* src/app.py:19  "Disk space alerts can lead to service crashes."
Doc2 ==
    <<"D","i","s","k"," ","s","p","a","c","e"," ","a","l","e","r","t","s"," ","c","a","n"," ",
      "l","e","a","d"," ","t","o"," ","s","e","r","v","i","c","e"," ","c","r","a","s","h","e",
      "s",".">>

\* src/app.py:20  "Network latency spikes may degrade performance."
Doc3 ==
    <<"N","e","t","w","o","r","k"," ","l","a","t","e","n","c","y"," ","s","p","i","k","e","s",
      " ","m","a","y"," ","d","e","g","r","a","d","e"," ","p","e","r","f","o","r","m","a","n",
      "c","e",".">>

\* src/app.py:21  "Memory leaks can cause application instability."
Doc4 ==
    <<"M","e","m","o","r","y"," ","l","e","a","k","s"," ","c","a","n"," ","c","a","u","s","e",
      " ","a","p","p","l","i","c","a","t","i","o","n"," ","i","n","s","t","a","b","i","l","i",
      "t","y",".">>

\* src/app.py:22  "Automatic remediation can restart services or free resources."
Doc5 ==
    <<"A","u","t","o","m","a","t","i","c"," ","r","e","m","e","d","i","a","t","i","o","n"," ",
      "c","a","n"," ","r","e","s","t","a","r","t"," ","s","e","r","v","i","c","e","s"," ","o",
      "r"," ","f","r","e","e"," ","r","e","s","o","u","r","c","e","s",".">>

\* TinyRAG.__init__: self.docs
docs == <<Doc1, Doc2, Doc3, Doc4, Doc5>>

---------------------------------------------------------------------------
(* TinyRAG.retrieve *)

RECURSIVE CountFrom(_, _, _)
CountFrom(words, doc_lower, i) ==
    IF i > Len(words) THEN 0
    ELSE (IF IsSubstring(words[i], doc_lower) THEN 1 ELSE 0)
         + CountFrom(words, doc_lower, i + 1)

\* a faulty score: each distinct token counted once, however often the query repeats it
ScoreDistinct(words, doc) ==
    Cardinality({w \in {words[i] : i \in 1..Len(words)} : IsSubstring(w, Lower(doc))})

\* sum(1 for w in query_words if w in doc.lower())
Score(words, doc) == CountFrom(words, Lower(doc), 1)

RECURSIVE ScoredFromAll(_, _)
\* a faulty loop: the score > 0 test left out, every fact appended
ScoredFromAll(words, i) ==
    IF i > Len(docs) THEN <<>>
    ELSE <<[score |-> Score(words, docs[i]), doc |-> docs[i]]>> \o ScoredFromAll(words, i + 1)

RECURSIVE ScoredFrom(_, _)
ScoredFrom(words, i) ==
    IF i > Len(docs) THEN <<>>
    ELSE LET score == Score(words, docs[i])
         IN  (IF score > 0 THEN <<[score |-> score, doc |-> docs[i]]>> ELSE <<>>)
             \o ScoredFrom(words, i + 1)

\* the loop over self.docs: the (score, doc) pairs appended to scored
ScoredList(words) == ScoredFrom(words, 1)

\* a faulty insertion: x put before the elements of equal key, as an unstable sort may
InsertBeforeEqual(sorted, x) ==
    LET n == Cardinality({i \in 1..Len(sorted) : -sorted[i].score < -x.score})
    IN  SubSeq(sorted, 1, n) \o <<x>> \o SubSeq(sorted, n + 1, Len(sorted))

\* x put after every element whose key -score is not larger than x's
InsertSorted(sorted, x) ==
    LET n == Cardinality({i \in 1..Len(sorted) : -sorted[i].score <= -x.score})
    IN  SubSeq(sorted, 1, n) \o <<x>> \o SubSeq(sorted, n + 1, Len(sorted))

RECURSIVE SortFrom(_, _, _)
SortFrom(xs, i, sorted) ==
    IF i > Len(xs) THEN sorted
    ELSE SortFrom(xs, i + 1, InsertSorted(sorted, xs[i]))

\* scored.sort(key=lambda x: -x[0]): list.sort is stable
SortByScore(xs) == SortFrom(xs, 1, <<>>)

\* a faulty slice: xs[:n + 1]
SliceToInclusive(xs, n) == SubSeq(xs, 1, IF n + 1 < Len(xs) THEN n + 1 ELSE Len(xs))

\* xs[:n]
SliceTo(xs, n) ==
    IF n >= 0
    THEN SubSeq(xs, 1, IF n < Len(xs) THEN n ELSE Len(xs))
    ELSE SubSeq(xs, 1, IF Len(xs) + n > 0 THEN Len(xs) + n ELSE 0)

\* [doc for _, doc in scored[:k]]
RetrieveResult(sc, kk) ==
    LET top == SliceTo(SortByScore(sc), kk)
    IN  [i \in 1..Len(top) |-> top[i].doc]

\* retrieve(query, k): its locals and its return value
Retrieve(q, kk) ==
    LET words == Split(Lower(q))
        sc    == ScoredList(words)
    IN  [query_words |-> words, scored |-> sc, result |-> RetrieveResult(sc, kk)]

---------------------------------------------------------------------------
(* JSON values, as resp.json() builds them: None, bool, int, str, list, dict. *)
(* Every value carries every field, so that any two can be compared.          *)

JNull == [t |-> "null", n |-> 0, s |-> <<>>, items |-> <<>>, members |-> <<>>]

JBool(b) == [t |-> "bool", n |-> IF b THEN 1 ELSE 0, s |-> <<>>, items |-> <<>>, members |-> <<>>]

JNum(x) == [t |-> "num", n |-> x, s |-> <<>>, items |-> <<>>, members |-> <<>>]

JStr(str) == [t |-> "str", n |-> 0, s |-> str, items |-> <<>>, members |-> <<>>]

JList(elems) == [t |-> "list", n |-> 0, s |-> <<>>, items |-> elems, members |-> <<>>]

\* a dict: its (key, value) members, keys distinct
JObj(mems) == [t |-> "obj", n |-> 0, s |-> <<>>, items |-> <<>>, members |-> mems]

Member(key, val) == [key |-> key, val |-> val]

\* the keys the client reads
CANDIDATES == <<"c","a","n","d","i","d","a","t","e","s">>

CONTENT == <<"c","o","n","t","e","n","t">>

PARTS == <<"p","a","r","t","s">>

TEXT == <<"t","e","x","t">>

---------------------------------------------------------------------------
(* Python's operations on such a value *)

\* bool(v)
Truthy(v) ==
    CASE v.t = "null" -> FALSE
      [] v.t = "bool" -> v.n = 1
      [] v.t = "num"  -> v.n # 0
      [] v.t = "str"  -> v.s # <<>>
      [] v.t = "list" -> v.items # <<>>
      [] v.t = "obj"  -> v.members # <<>>

HasKey(v, key) == \E i \in 1..Len(v.members) : v.members[i].key = key

Lookup(v, key) == v.members[CHOOSE i \in 1..Len(v.members) : v.members[i].key = key].val

\* key in v  raises TypeError: None, a bool and a number are not containers
InRaises(v) == v.t \in {"null", "bool", "num"}

\* key in v, for a str key and a dict, list or str v
In(key, v) ==
    CASE v.t = "obj"  -> HasKey(v, key)
      [] v.t = "list" -> \E i \in 1..Len(v.items) : v.items[i].t = "str" /\ v.items[i].s = key
      [] v.t = "str"  -> IsSubstring(key, v.s)

\* v[key] for a str key raises TypeError unless v is a dict
SubscriptKeyRaises(v) == v.t # "obj"

\* v.get(key, default) raises AttributeError unless v is a dict
GetRaises(v) == v.t # "obj"

\* dict.get(key, default)
Get(v, key, default) == IF HasKey(v, key) THEN Lookup(v, key) ELSE default

\* the elements  for p in v  visits: a list's items, a str's characters, a dict's keys
Elements(v) ==
    CASE v.t = "list" -> v.items
      [] v.t = "str"  -> [i \in 1..Len(v.s) |-> JStr(<<v.s[i]>>)]
      [] v.t = "obj"  -> [i \in 1..Len(v.members) |-> JStr(v.members[i].key)]

---------------------------------------------------------------------------
(* gemini_generate *)

\* src/app.py:47  "U+26A0 U+FE0F Network/Request error: " (the text before {e})
RequestErrorPrefix ==
    <<"U+26A0","U+FE0F"," ","N","e","t","w","o","r","k","/","R","e","q","u","e","s","t"," ","e",
      "r","r","o","r",":"," ">>

\* src/app.py:55  "U+26A0 U+FE0F Gemini API returned no usable text."
NoUsableText ==
    <<"U+26A0","U+FE0F"," ","G","e","m","i","n","i"," ","A","P","I"," ","r","e","t","u","r","n",
      "e","d"," ","n","o"," ","u","s","a","b","l","e"," ","t","e","x","t",".">>

\* how a call ends: it returns a str, or an exception leaves it
Return(str) == [kind |-> "return", value |-> str, exc |-> ""]

Raise(exc) == [kind |-> "raise", value |-> <<>>, exc |-> exc]

RECURSIVE PartsLoop(_, _)
\* for p in parts: if "text" in p and p["text"]: return p["text"].strip()
PartsLoop(ps, i) ==
    IF i > Len(ps) THEN Return(NoUsableText)
    ELSE LET p == ps[i]
         IN  IF InRaises(p) THEN Raise("TypeError")
             ELSE IF ~In(TEXT, p) THEN PartsLoop(ps, i + 1)
             ELSE IF SubscriptKeyRaises(p) THEN Raise("TypeError")
             ELSE LET text == Lookup(p, TEXT)
                  IN  IF ~Truthy(text) THEN PartsLoop(ps, i + 1)
                      ELSE IF text.t = "str" THEN Return(Strip(text.s))
                      ELSE Raise("AttributeError")

\* cand = data["candidates"][0], then lines 51-54
FirstCandidate(cands) ==
    CASE cands.t = "obj"             -> Raise("KeyError")
      [] cands.t \in {"bool", "num"} -> Raise("TypeError")
      [] cands.t \in {"list", "str"} ->
            LET cand == Elements(cands)[1]
            IN  IF GetRaises(cand) THEN Raise("AttributeError")
                ELSE LET content == Get(cand, CONTENT, JObj(<<>>))
                     IN  IF GetRaises(content) THEN Raise("AttributeError")
                         ELSE LET parts == Get(content, PARTS, JList(<<>>))
                              IN  IF InRaises(parts) THEN Raise("TypeError")
                                  ELSE PartsLoop(Elements(parts), 1)

\* lines 49-55: the parsed body to the value returned
ExtractText(data) ==
    IF InRaises(data) THEN Raise("TypeError")
    ELSE IF ~In(CANDIDATES, data) THEN Return(NoUsableText)
    ELSE IF SubscriptKeyRaises(data) THEN Raise("TypeError")
    ELSE LET cands == Lookup(data, CANDIDATES)
         IN  IF ~Truthy(cands) THEN Return(NoUsableText)
             ELSE FirstCandidate(cands)

\* the outcome of lines 44-45: requests.post raised, resp.json() raised (detail is
\* str(e)), or the body parsed to data
PostRaises(detail) == [kind |-> "post_raises", detail |-> detail, data |-> JNull]

JsonRaises(detail) == [kind |-> "json_raises", detail |-> detail, data |-> JNull]

Parsed(data) == [kind |-> "parsed", detail |-> <<>>, data |-> data]

NoOutcome == [kind |-> "none", detail |-> <<>>, data |-> JNull]

\* a faulty client: only the request is guarded, a body that is not JSON raises
GeminiGenerateJsonUnguarded(outcome) ==
    IF outcome.kind = "post_raises" THEN Return(RequestErrorPrefix \o outcome.detail)
    ELSE IF outcome.kind = "json_raises" THEN Raise("JSONDecodeError")
    ELSE ExtractText(outcome.data)

\* gemini_generate from the outcome of its one HTTP call on
GeminiGenerate(outcome) ==
    IF outcome.kind \in {"post_raises", "json_raises"}
    THEN Return(RequestErrorPrefix \o outcome.detail)
    ELSE ExtractText(outcome.data)

\* lines 37-44: the request gemini_generate posts
Payload(key, text, max_tokens) ==
    [key |-> key, text |-> text, maxOutputTokens |-> max_tokens, timeout |-> 30]

NoRequest == [key |-> <<>>, text |-> <<>>, maxOutputTokens |-> 0, timeout |-> 0]

---------------------------------------------------------------------------
(* agentic_self_healing *)

\* src/app.py:60-65  the template up to {incident}
PromptHead ==
    <<"\n","Y","o","u"," ","a","r","e"," ","a","n"," ","e","x","p","e","r","t"," ","D","a","t",
      "a"," ","C","e","n","t","e","r"," ","A","I"," ","a","s","s","i","s","t","a","n","t"," ",
      "f","o","r"," ","s","e","l","f","-","h","e","a","l","i","n","g"," ","i","n","f","r","a",
      "s","t","r","u","c","t","u","r","e",".","\n","A","n","a","l","y","z","e"," ","t","h","e",
      " ","f","o","l","l","o","w","i","n","g"," ","i","n","c","i","d","e","n","t"," ","o","r",
      " ","s","y","s","t","e","m"," ","l","o","g"," ","a","n","d"," ","p","r","o","v","i","d",
      "e"," ","a"," ","p","r","o","a","c","t","i","v","e"," ","r","e","m","e","d","i","a","t",
      "i","o","n"," ","p","l","a","n",".","\n","\n","I","n","c","i","d","e","n","t",":","\n">>

\* src/app.py:65-68  the template between {incident} and {context}
PromptMid ==
    <<"\n","\n","K","n","o","w","l","e","d","g","e"," ","B","a","s","e",":","\n">>

\* src/app.py:68-77  the template after {context}
PromptTail ==
    <<"\n","\n","T","a","s","k","s",":","\n","1","."," ","P","r","e","d","i","c","t"," ","p",
      "o","t","e","n","t","i","a","l"," ","i","s","s","u","e","s","\n","2","."," ","G","e","n",
      "e","r","a","t","e"," ","a","n"," ","a","u","t","o","m","a","t","i","c"," ","r","e","m",
      "e","d","i","a","t","i","o","n"," ","p","l","a","n","\n","3","."," ","S","u","g","g","e",
      "s","t"," ","m","o","n","i","t","o","r","i","n","g"," ","i","m","p","r","o","v","e","m",
      "e","n","t","s","\n","4","."," ","P","r","o","v","i","d","e"," ","c","o","n","c","i","s",
      "e"," ","e","x","p","l","a","n","a","t","i","o","n"," ","f","o","r"," ","e","a","c","h",
      " ","s","t","e","p","\n","\n","R","e","t","u","r","n"," ","a"," ","s","t","r","u","c","t",
      "u","r","e","d",","," ","a","c","t","i","o","n","a","b","l","e"," ","r","e","p","o","r",
      "t",".","\n">>

\* retrieve's default k
DefaultK == 3

\* the max_tokens agentic_self_healing passes
ReportMaxTokens == 350

\* the f-string: the template with {incident} and {context} filled in
BuildPrompt(incident, ctx) == PromptHead \o incident \o PromptMid \o ctx \o PromptTail

\* agentic_self_healing up to the POST inside gemini_generate
AgenticSelfHealing(key, incident) ==
    LET r   == Retrieve(incident, DefaultK)
        ctx == Join(<<" ">>, r.result)
        p   == BuildPrompt(incident, ctx)
    IN  [query_words |-> r.query_words, scored |-> r.scored, result |-> r.result,
         context |-> ctx, prompt |-> p, request |-> Payload(key, p, ReportMaxTokens)]

---------------------------------------------------------------------------
(* Inputs *)

\* the keys get_api_key may return: unset, set
ApiKeys == {<<>>, <<"k">>}

\* what the user may type into the text area
IncidentAlphabet == {"U", "z", " "}

Incidents == Strings(IncidentAlphabet, MaxIncidentLen)

\* the queries given to retrieve
QueryAlphabet == {"p", "U", "z", " ", "\n"}

Queries == Strings(QueryAlphabet, MaxLen)

\* str(e) of the exception requests.post or resp.json() raised
ErrorDetails == {<<>>, <<"r","e","f","u","s","e","d">>, <<"t","i","m","e","d"," ","o","u","t">>}

JsonErrorDetails == {<<"E","x","p","e","c","t","i","n","g"," ","v","a","l","u","e">>}

\* values of a part's "text"
TextValues ==
    {JNull, JBool(TRUE), JNum(0), JNum(7), JStr(<<>>), JStr(<<" ">>), JStr(<<"a">>),
     JStr(<<" ", "a", " ", "b", "\n">>), JList(<<>>), JObj(<<>>)}

\* values of an element of "parts"
PartValues ==
    {JObj(<<Member(TEXT, t)>>) : t \in TextValues}
    \cup {JObj(<<>>), JObj(<<Member(<<"x">>, JStr(<<"a">>))>>), JNull, JNum(1),
          JStr(TEXT), JStr(<<"a">>), JList(<<JStr(TEXT)>>)}

\* values of "parts"
PartsValues ==
    {JList(ps) : ps \in UNION {[1..m -> PartValues] : m \in 0..MaxParts}}
    \cup {JNull, JNum(3), JStr(<<"a", "b">>), JObj(<<Member(TEXT, JStr(<<"a">>))>>)}

\* values of "content"
ContentValues ==
    {JObj(<<Member(PARTS, p)>>) : p \in PartsValues}
    \cup {JObj(<<>>), JNull, JStr(<<"a">>), JList(<<>>)}

\* values of an element of "candidates"
CandidateValues ==
    {JObj(<<Member(CONTENT, c)>>) : c \in ContentValues}
    \cup {JObj(<<>>), JNull, JNum(1), JStr(<<"a">>), JList(<<>>)}

\* a candidate that carries the text "b"
GoodCandidate ==
    JObj(<<Member(CONTENT, JObj(<<Member(PARTS, JList(<<JObj(<<Member(TEXT, JStr(<<"b">>))>>)>>))>>))>>)

\* values of "candidates"
CandidatesValues ==
    {JList(<<c>>) : c \in CandidateValues}
    \cup {JList(<<c, GoodCandidate>>) : c \in CandidateValues}
    \cup {JList(<<>>), JNull, JBool(TRUE), JNum(2), JStr(<<>>), JStr(<<"a">>), JObj(<<>>),
          JObj(<<Member(<<"0">>, GoodCandidate)>>)}

\* values resp.json() may return
DataValues ==
    {JObj(<<Member(CANDIDATES, c)>>) : c \in CandidatesValues}
    \cup {JObj(<<>>), JObj(<<Member(<<"e","r","r","o","r">>, JObj(<<>>))>>), JNull, JBool(FALSE),
          JNum(0), JStr(<<>>), JStr(CANDIDATES), JList(<<>>), JList(<<JStr(CANDIDATES)>>)}

\* outcomes of the HTTP call
HttpOutcomes ==
    {Parsed(d) : d \in DataValues}
    \cup {PostRaises(e) : e \in ErrorDetails}
    \cup {JsonRaises(e) : e \in JsonErrorDetails}

\* a body with the given "parts" in its first candidate
Body(ps) ==
    JObj(<<Member(CANDIDATES, JList(<<JObj(<<Member(CONTENT, JObj(<<Member(PARTS, JList(ps))>>))>>)>>))>>)

\* the outcomes the page's runs draw from
PageOutcomes ==
    {PostRaises(<<"r","e","f","u","s","e","d">>),
     JsonRaises(<<"E","x","p","e","c","t","i","n","g"," ","v","a","l","u","e">>),
     Parsed(Body(<<JObj(<<Member(TEXT, JStr(<<" ", "a", " ", "b", "\n">>))>>)>>)),
     Parsed(JObj(<<Member(CANDIDATES, JList(<<>>))>>)),
     Parsed(JObj(<<Member(<<"e","r","r","o","r">>, JObj(<<>>))>>)),
     Parsed(JNull),
     Parsed(Body(<<JObj(<<Member(TEXT, JNum(7))>>)>>))}

\* the prompts and max_tokens given to gemini_generate in SpecGenerate
GeneratePrompts == {<<>>, <<"c">>}

GenerateMaxTokens == {0, ReportMaxTokens}

---------------------------------------------------------------------------
(* The page: Spec *)

NoResult == [kind |-> "none", value |-> <<>>, exc |-> ""]

\* the locals of a script run that has not reached the pipeline
FreshLocals ==
    /\ query = <<>>
    /\ k = 0
    /\ query_words = <<>>
    /\ scored = <<>>
    /\ result = <<>>
    /\ context = <<>>
    /\ prompt = <<>>
    /\ http = NoOutcome
    /\ gres = NoResult

ResetLocals ==
    /\ query' = <<>>
    /\ k' = 0
    /\ query_words' = <<>>
    /\ scored' = <<>>
    /\ result' = <<>>
    /\ context' = <<>>
    /\ prompt' = <<>>
    /\ http' = NoOutcome
    /\ gres' = NoResult

\* the page as first served: empty text area, nothing under the button
Init ==
    /\ api_key \in ApiKeys
    /\ langgraph_available \in BOOLEAN
    /\ incident_input = <<>>
    /\ pc = "idle"
    /\ display = "none"
    /\ info = FALSE
    /\ report = <<>>
    /\ triggers = 0
    /\ posts = 0
    /\ request = NoRequest
    /\ FreshLocals

\* the user changes the text area: the script reruns with the button not pressed
EditIncident ==
    /\ pc = "idle"
    /\ \E str \in Incidents :
          /\ str # incident_input
          /\ incident_input' = str
    /\ display' = "none"
    /\ info' = FALSE
    /\ report' = <<>>
    /\ ResetLocals
    /\ UNCHANGED <<api_key, langgraph_available, pc, triggers, posts, request>>

\* the user presses the button: lines 97-109, up to the POST gemini_generate sends
ClickButton ==
    /\ pc = "idle"
    /\ triggers < MaxTriggers
    /\ triggers' = triggers + 1
    /\ info' = FALSE
    /\ report' = <<>>
    /\ IF api_key = <<>>
       THEN /\ display' = "error"
            /\ ResetLocals
            /\ UNCHANGED <<pc, posts, request>>
       ELSE IF Strip(incident_input) = <<>>
       THEN /\ display' = "warning"
            /\ ResetLocals
            /\ UNCHANGED <<pc, posts, request>>
       ELSE \E a \in {AgenticSelfHealing(api_key, Strip(incident_input))} :
                /\ query' = Strip(incident_input)
                /\ k' = DefaultK
                /\ query_words' = a.query_words
                /\ scored' = a.scored
                /\ result' = a.result
                /\ context' = a.context
                /\ prompt' = a.prompt
                /\ request' = a.request
                /\ posts' = posts + 1
                /\ http' = NoOutcome
                /\ gres' = NoResult
                /\ display' = "spinner"
                /\ pc' = "awaiting"
    /\ UNCHANGED <<api_key, langgraph_available, incident_input>>

\* a faulty client: a failed call is sent again instead of being reported
HttpReturnRetry ==
    /\ pc = "awaiting"
    /\ \E o \in PageOutcomes :
          \E g \in {GeminiGenerate(o)} :
              /\ http' = o
              /\ IF o.kind \in {"post_raises", "json_raises"}
                 THEN /\ posts' = posts + 1
                      /\ gres' = NoResult
                      /\ pc' = "awaiting"
                      /\ UNCHANGED <<display, report, info>>
                 ELSE /\ posts' = posts
                      /\ gres' = g
                      /\ pc' = "idle"
                      /\ IF g.kind = "return"
                         THEN /\ display' = "report"
                              /\ report' = g.value
                              /\ info' = langgraph_available
                         ELSE /\ display' = "exception"
                              /\ report' = <<>>
                              /\ info' = FALSE
    /\ UNCHANGED <<api_key, langgraph_available, incident_input, triggers, request,
                   query, k, query_words, scored, result, context, prompt>>

\* the HTTP call ends: the rest of gemini_generate, then lines 110-115
HttpReturn ==
    /\ pc = "awaiting"
    /\ \E o \in PageOutcomes :
          \E g \in {GeminiGenerate(o)} :
              /\ http' = o
              /\ gres' = g
              /\ IF g.kind = "return"
                 THEN /\ display' = "report"
                      /\ report' = g.value
                      /\ info' = langgraph_available
                 ELSE /\ display' = "exception"
                      /\ report' = <<>>
                      /\ info' = FALSE
    /\ pc' = "idle"
    /\ UNCHANGED <<api_key, langgraph_available, incident_input, triggers, posts, request,
                   query, k, query_words, scored, result, context, prompt>>

Next == EditIncident \/ ClickButton \/ HttpReturn

Spec == Init /\ [][Next]_vars

---------------------------------------------------------------------------
(* TinyRAG.retrieve alone: SpecRetrieve *)

InitRetrieve ==
    /\ query \in Queries
    /\ k \in 0..MaxK
    /\ pc = "retrieve_call"
    /\ query_words = <<>>
    /\ scored = <<>>
    /\ result = <<>>
    /\ api_key = <<>>
    /\ langgraph_available = FALSE
    /\ incident_input = <<>>
    /\ display = "none"
    /\ info = FALSE
    /\ report = <<>>
    /\ triggers = 0
    /\ posts = 0
    /\ request = NoRequest
    /\ context = <<>>
    /\ prompt = <<>>
    /\ http = NoOutcome
    /\ gres = NoResult

\* rag.retrieve(query, k)
CallRetrieve ==
    /\ pc = "retrieve_call"
    /\ \E r \in {Retrieve(query, k)} :
           /\ query_words' = r.query_words
           /\ scored' = r.scored
           /\ result' = r.result
    /\ pc' = "retrieve_done"
    /\ UNCHANGED <<api_key, langgraph_available, incident_input, display, info, report,
                   triggers, posts, request, query, k, context, prompt, http, gres>>

NextRetrieve == CallRetrieve

SpecRetrieve == InitRetrieve /\ [][NextRetrieve]_vars

---------------------------------------------------------------------------
(* gemini_generate alone: SpecGenerate *)

InitGenerate ==
    /\ http \in HttpOutcomes
    /\ \E key \in ApiKeys, text \in GeneratePrompts, max_tokens \in GenerateMaxTokens :
          request = Payload(key, text, max_tokens)
    /\ pc = "generate_call"
    /\ gres = NoResult
    /\ posts = 0
    /\ api_key = <<>>
    /\ langgraph_available = FALSE
    /\ incident_input = <<>>
    /\ display = "none"
    /\ info = FALSE
    /\ report = <<>>
    /\ triggers = 0
    /\ query = <<>>
    /\ k = 0
    /\ query_words = <<>>
    /\ scored = <<>>
    /\ result = <<>>
    /\ context = <<>>
    /\ prompt = <<>>

\* gemini_generate(api_key, prompt, max_tokens): one POST, whose outcome is http
CallGenerate ==
    /\ pc = "generate_call"
    /\ posts' = posts + 1
    /\ gres' = GeminiGenerate(http)
    /\ pc' = "generate_done"
    /\ UNCHANGED <<api_key, langgraph_available, incident_input, display, info, report,
                   triggers, request, query, k, query_words, scored, result, context,
                   prompt, http>>

NextGenerate == CallGenerate

SpecGenerate == InitGenerate /\ [][NextGenerate]_vars

---------------------------------------------------------------------------
(* What the claims speak of, stated without the code's own procedures *)

Range(f) == {f[i] : i \in DOMAIN f}

\* the maximal runs of non-whitespace of s, as (first, last) positions
TokenRuns(s) ==
    {r \in (1..Len(s)) \X (1..Len(s)) :
        /\ r[1] <= r[2]
        /\ \A t \in r[1]..r[2] : s[t] \notin Whitespace
        /\ r[1] = 1 \/ s[r[1] - 1] \in Whitespace
        /\ r[2] = Len(s) \/ s[r[2] + 1] \in Whitespace}

\* sub is a contiguous part of s
Occurs(sub, s) == \E i \in 1..(Len(s) - Len(sub) + 1) : SubSeq(s, i, i + Len(sub) - 1) = sub

\* the positions of the query's token sequence whose token occurs in fact d
MatchingTokens(q, d) ==
    {r \in TokenRuns(Lower(q)) : Occurs(SubSeq(Lower(q), r[1], r[2]), Lower(docs[d]))}

ExpectedScore(q, d) == Cardinality(MatchingTokens(q, d))

Min(a, b) == IF a < b THEN a ELSE b

\* s without its leading and trailing whitespace
Trimmed(s) ==
    LET keep == {i \in 1..Len(s) : s[i] \notin Whitespace}
    IN  IF keep = {} THEN <<>>
        ELSE SubSeq(s, CHOOSE i \in keep : \A j \in keep : i <= j,
                       CHOOSE i \in keep : \A j \in keep : j <= i)

WarningMarker == <<"U+26A0", "U+FE0F">>

StartsWith(s, prefix) == Len(prefix) <= Len(s) /\ SubSeq(s, 1, Len(prefix)) = prefix

\* the parts of the first candidate, when the body has that shape; none otherwise
FirstCandidateParts(data) ==
    IF /\ data.t = "obj"
       /\ HasKey(data, CANDIDATES)
       /\ Lookup(data, CANDIDATES).t = "list"
       /\ Lookup(data, CANDIDATES).items # <<>>
    THEN LET cand == Lookup(data, CANDIDATES).items[1]
         IN  IF /\ cand.t = "obj"
                /\ HasKey(cand, CONTENT)
                /\ Lookup(cand, CONTENT).t = "obj"
                /\ HasKey(Lookup(cand, CONTENT), PARTS)
                /\ Lookup(Lookup(cand, CONTENT), PARTS).t = "list"
             THEN Lookup(Lookup(cand, CONTENT), PARTS).items
             ELSE <<>>
    ELSE <<>>

\* a part with a non-empty "text"
HasText(p) ==
    /\ p.t = "obj"
    /\ HasKey(p, TEXT)
    /\ Lookup(p, TEXT).t = "str"
    /\ Lookup(p, TEXT).s # <<>>

\* what the client is to return for a parsed body
ExpectedText(data) ==
    LET ps     == FirstCandidateParts(data)
        usable == {i \in 1..Len(ps) : HasText(ps[i])}
    IN  IF usable = {} THEN NoUsableText
        ELSE Trimmed(Lookup(ps[CHOOSE i \in usable : \A j \in usable : i <= j], TEXT).s)

\* the body follows the response schema: a dict whose "candidates", if any, is a
\* list of dicts, each "content" a dict, each "parts" a list of dicts, each "text" a str
SchemaPart(p) == p.t = "obj" /\ (HasKey(p, TEXT) => Lookup(p, TEXT).t = "str")

SchemaContent(c) ==
    /\ c.t = "obj"
    /\ HasKey(c, PARTS) =>
          /\ Lookup(c, PARTS).t = "list"
          /\ \A i \in 1..Len(Lookup(c, PARTS).items) : SchemaPart(Lookup(c, PARTS).items[i])

SchemaCandidate(c) == c.t = "obj" /\ (HasKey(c, CONTENT) => SchemaContent(Lookup(c, CONTENT)))

SchemaBody(data) ==
    /\ data.t = "obj"
    /\ HasKey(data, CANDIDATES) =>
          /\ Lookup(data, CANDIDATES).t = "list"
          /\ \A i \in 1..Len(Lookup(data, CANDIDATES).items) :
                SchemaCandidate(Lookup(data, CANDIDATES).items[i])

RECURSIVE OffsetOf(_, _)
\* where the i-th of strs starts in their join with a one-character separator
OffsetOf(strs, i) == IF i = 1 THEN 1 ELSE OffsetOf(strs, i - 1) + Len(strs[i - 1]) + 1

\* ctx is strs joined by single spaces
IsSpaceJoin(ctx, strs) ==
    IF strs = <<>> THEN ctx = <<>>
    ELSE /\ Len(ctx) = OffsetOf(strs, Len(strs)) + Len(strs[Len(strs)]) - 1
         /\ \A i \in 1..Len(strs) : OccursAt(strs[i], ctx, OffsetOf(strs, i))
         /\ \A i \in 1..(Len(strs) - 1) : ctx[OffsetOf(strs, i + 1) - 1] = " "

Blank(s) == \A i \in 1..Len(s) : s[i] \in Whitespace

---------------------------------------------------------------------------
(* The claims *)

\* C1: gemini_generate never raises: whatever the HTTP call's outcome (transport
\* failure, a body that is not JSON, a body that parses to a JSON value of any shape),
\* the call ends by returning a string.
C1_NeverRaises == pc = "generate_done" => gres.kind = "return"

\* C2: when the HTTP request or the JSON parsing fails, gemini_generate returns a
\* string that starts with the warning marker and contains the failure's description;
\* nothing is raised to the caller.
C2_FailureBecomesWarning ==
    (pc = "generate_done" /\ http.kind \in {"post_raises", "json_raises"}) =>
        /\ gres.kind = "return"
        /\ StartsWith(gres.value, WarningMarker)
        /\ Occurs(http.detail, SubSeq(gres.value, Len(WarningMarker) + 1, Len(gres.value)))

C2_Witness ==
    /\ pc = "generate_done"
    /\ http = PostRaises(<<"r","e","f","u","s","e","d">>)
    /\ gres.kind = "return"
    /\ gres.value = RequestErrorPrefix \o <<"r","e","f","u","s","e","d">>

\* C3: for a parsed response gemini_generate returns the trimmed text of the first
\* part of the first candidate that has a non-empty text, and in every other case
\* the fixed "no usable text" string.
C3_FirstUsableText ==
    (pc = "generate_done" /\ http.kind = "parsed") =>
        /\ gres.kind = "return"
        /\ gres.value = ExpectedText(http.data)

\* C3 on the bodies that follow the response schema
C3_FirstUsableTextOnSchema ==
    (pc = "generate_done" /\ http.kind = "parsed" /\ SchemaBody(http.data)) =>
        /\ gres.kind = "return"
        /\ gres.value = ExpectedText(http.data)

\* C4: the result of retrieve is the first k facts of the positive-score facts
\* ordered by score descending, equal scores in the order of docs.
C4_StableTopK ==
    pc = "retrieve_done" =>
        \E sc \in {[d \in 1..Len(docs) |-> ExpectedScore(query, d)]} :
            LET matched      == {d \in 1..Len(docs) : sc[d] > 0}
                before(a, b) == sc[a] > sc[b] \/ (sc[a] = sc[b] /\ a < b)
            IN  /\ Len(result) = Min(k, Cardinality(matched))
                /\ \A i \in 1..Len(result) :
                      \E d \in matched :
                          /\ result[i] = docs[d]
                          /\ Cardinality({e \in matched : before(e, d)}) = i - 1

C4_Witness ==
    /\ pc = "retrieve_done"
    /\ query = <<"p", " ", "U">>
    /\ k = 3
    /\ result = <<Doc1, Doc4, Doc2>>

\* C5: for k >= 0 retrieve returns at most k facts and at most as many as the store
\* holds, each a stored fact and none twice; with k = 0 it returns nothing.
C5_AtMostK ==
    (pc = "retrieve_done" /\ k >= 0) =>
        /\ Len(result) <= k
        /\ Len(result) <= Len(docs)
        /\ \A i \in 1..Len(result) : result[i] \in Range(docs)
        /\ \A i, j \in 1..Len(result) : i # j => result[i] # result[j]
        /\ k = 0 => result = <<>>

C5_Witness ==
    /\ pc = "retrieve_done"
    /\ k > Len(docs)
    /\ Len(result) = Len(docs)

\* C6: every fact retrieve returns contains a lower-cased query token in its
\* lower-cased text; a query no token of which occurs in any fact, and a query with
\* no token at all, yields the empty sequence.
C6_OnlyMatchingFacts ==
    pc = "retrieve_done" =>
        /\ \A i \in 1..Len(result) :
              \E d \in 1..Len(docs) : result[i] = docs[d] /\ MatchingTokens(query, d) # {}
        /\ (\A d \in 1..Len(docs) : MatchingTokens(query, d) = {}) => result = <<>>
        /\ Blank(query) => result = <<>>

C6_Witness ==
    /\ pc = "retrieve_done"
    /\ query = <<"z", " ", "p", "z">>
    /\ k = 3
    /\ result = <<>>

\* C7: on every trigger the pipeline runs only with a non-empty key and a non-blank
\* incident, and the trigger ends in exactly one of: the missing-key error (key
\* empty), the empty-input warning (key set, incident blank), the rendered report.
C7_TriggerOutcomes ==
    /\ pc = "awaiting" => (api_key # <<>> /\ ~Blank(incident_input))
    /\ (pc = "idle" /\ display # "none") =>
          \/ display = "error" /\ api_key = <<>>
          \/ display = "warning" /\ api_key # <<>> /\ Blank(incident_input)
          \/ display = "report" /\ api_key # <<>> /\ ~Blank(incident_input)

\* C7 without its last outcome: the guard and the two refusals
C7_GuardAndRefusals ==
    /\ pc = "awaiting" => (api_key # <<>> /\ ~Blank(incident_input))
    /\ posts > 0 => api_key # <<>>
    /\ display = "error" => (api_key = <<>> /\ pc = "idle")
    /\ display = "warning" => (api_key # <<>> /\ Blank(incident_input) /\ pc = "idle")
    /\ display \in {"report", "exception"} => (api_key # <<>> /\ ~Blank(incident_input))

\* C8: a POST is sent only by a trigger that starts an analysis, one per analysis;
\* the end of the call, failed or not, sends none, and a failed call shows the
\* error string as the report.
C8_OnePostPerRequest ==
    /\ [](posts <= triggers)
    /\ [][/\ posts' \in {posts, posts + 1}
          /\ posts' = posts + 1 <=> (pc = "idle" /\ pc' = "awaiting" /\ triggers' = triggers + 1)
          /\ pc = "awaiting" =>
                /\ posts' = posts
                /\ triggers' = triggers
                /\ pc' = "idle"
                /\ http'.kind \in {"post_raises", "json_raises"} =>
                      /\ display' = "report"
                      /\ report' = RequestErrorPrefix \o http'.detail]_vars

C8_Witness ==
    /\ pc = "idle"
    /\ http.kind = "post_raises"
    /\ display = "report"
    /\ StartsWith(report, WarningMarker)
    /\ posts = 2
    /\ triggers = 2

\* C9: the prompt handed to gemini_generate contains the incident as received and,
\* after it, the context, which is the retrieved facts joined by single spaces.
C9_PromptEmbedsIncidentAndContext ==
    pc = "awaiting" =>
        /\ IsSpaceJoin(context, result)
        /\ request.text = prompt
        /\ \E i, j \in 1..(Len(prompt) + 1) :
              /\ OccursAt(query, prompt, i)
              /\ OccursAt(context, prompt, j)
              /\ i + Len(query) <= j

C9_Witness ==
    /\ pc = "awaiting"
    /\ query = <<"U">>
    /\ result = <<Doc1, Doc4, Doc5>>
    /\ Len(context) = Len(Doc1) + Len(Doc4) + Len(Doc5) + 2

\* C10: the score of a fact is the number of positions of the lower-cased,
\* whitespace-split query whose token occurs in the lower-cased fact.
C10_ScoreCountsQueryTokens ==
    pc = "retrieve_done" =>
        /\ Len(query_words) = Cardinality(TokenRuns(query))
        /\ \A d \in 1..Len(docs) :
              IF ExpectedScore(query, d) > 0
              THEN \E i \in 1..Len(scored) :
                      scored[i] = [score |-> ExpectedScore(query, d), doc |-> docs[d]]
              ELSE \A i \in 1..Len(scored) : scored[i].doc # docs[d]

C10_Witness ==
    /\ pc = "retrieve_done"
    /\ query_words = << <<"p">>, <<"p">> >>
    /\ scored[1] = [score |-> 2, doc |-> Doc1]

====
